---------------------------- MODULE Spec2Model ----------------------------
(***************************************************************************)
(* SmartABTester (src/src/smart_decision_engine.py): the A/B-test decision *)
(* engine.  One engine holds `alpha`; its operations are check_srm and     *)
(* analyze_test (which calls check_srm, _check_normality and one of the    *)
(* three test procedures).                                                 *)
(*                                                                         *)
(* Representation.                                                         *)
(*  - A dataset is a sequence of runs [variant, value, n]: n consecutive   *)
(*    rows with that variant label and that metric value.  The metric      *)
(*    value -1 stands for a null (NaN) cell.                               *)
(*  - A float is a record [nan, v]; p-values and alpha are in thousandths  *)
(*    (50 is 0.05).  Comparisons follow IEEE-754: any comparison with NaN  *)
(*    is false.                                                            *)
(*  - chi2 is the exact rational [num, den].                               *)
(*  - The library tests (Shapiro-Wilk, proportions_ztest, ttest_ind,       *)
(*    mannwhitneyu) are functions of their inputs whose values the engine  *)
(*    cannot know: `lib` tabulates the p-value each has returned so far,   *)
(*    so that the same input always gets the same answer.  On a sample of  *)
(*    fewer than 3 observations shapiro raises ValueError in older scipy   *)
(*    and returns NaN in newer scipy: `lib.small` is "unknown" until the   *)
(*    installed version has shown which.                                   *)
(***************************************************************************)
EXTENDS Integers, Sequences, FiniteSets, TLC

VARIABLES alpha,     \* self.alpha, in thousandths
          df,        \* the caller's dataset
          lib,       \* what the libraries have answered so far
          srmCalls,  \* the last check_srm calls, newest last
          anCalls,   \* the last analyze_test calls, newest last
          edited     \* whether the caller has rearranged the dataset

vars == <<alpha, df, lib, srmCalls, anCalls, edited>>

-----------------------------------------------------------------------------
(* Bounds of the model *)

MaxRuns == 3
KeepCalls == 2

Variants == {"A", "B", "C"}
Alphas == {10, 50}

\* the (value, n) runs analyze_test is explored on: a null row, single rows
\* of 0 and 1, three rows of 2 (the shortest sample Shapiro-Wilk accepts)
\* and 5000 rows of 2 (the longest sample that is not down-sampled)
RunKinds == { <<-1, 1>>, <<0, 1>>, <<1, 1>>, <<2, 3>>, <<2, 5000>> }

\* the run lengths check_srm is explored on
SrmSizes == {1, 100, 900}

-----------------------------------------------------------------------------
(* Floats *)

NaN == [nan |-> TRUE, v |-> 0]
Num(x) == [nan |-> FALSE, v |-> x]

FloatLt(x, y) == ~x.nan /\ ~y.nan /\ x.v < y.v
FloatGt(x, y) == ~x.nan /\ ~y.nan /\ x.v > y.v

-----------------------------------------------------------------------------
(* pandas / numpy helpers *)

RECURSIVE SumSeq(_)
SumSeq(s) == IF s = <<>> THEN 0 ELSE Head(s) + SumSeq(Tail(s))

Range(s) == { s[i] : i \in DOMAIN s }

IsNa(v) == v < 0

RECURSIVE UniqueFrom(_, _)
UniqueFrom(s, seen) ==
    IF s = <<>> THEN <<>>
    ELSE IF Head(s) \in seen THEN UniqueFrom(Tail(s), seen)
         ELSE <<Head(s)>> \o UniqueFrom(Tail(s), seen \cup {Head(s)})

\* df[variant_col].unique(): the distinct labels in order of first appearance
LabelsOf(d) == [i \in DOMAIN d |-> d[i].variant]
Unique(d) == UniqueFrom(LabelsOf(d), {})

RECURSIVE RowCount(_, _)
\* the number of rows with label lab
RowCount(d, lab) ==
    IF d = <<>> THEN 0
    ELSE (IF Head(d).variant = lab THEN Head(d).n ELSE 0) + RowCount(Tail(d), lab)

RECURSIVE InsertDesc(_, _)
InsertDesc(x, s) ==
    IF s = <<>> THEN <<x>>
    ELSE IF x > Head(s) THEN <<x>> \o s
         ELSE <<Head(s)>> \o InsertDesc(x, Tail(s))

RECURSIVE SortDesc(_)
SortDesc(s) == IF s = <<>> THEN <<>> ELSE InsertDesc(Head(s), SortDesc(Tail(s)))

\* a plausible slip: the counts of the two arms only
ValueCountsTwoArms(d) ==
    LET u == Unique(d)
    IN SortDesc([i \in 1..(IF Len(u) < 2 THEN Len(u) ELSE 2) |-> RowCount(d, u[i])])

\* df[variant_col].value_counts().values: the per-label row counts, largest first
ValueCounts(d) ==
    LET u == Unique(d)
    IN SortDesc([i \in DOMAIN u |-> RowCount(d, u[i])])

-----------------------------------------------------------------------------
(* check_srm *)

\* a plausible slip: the first count taken as every cell's expected count, so
\* that chi2 = sum (c - c1)^2 / c1
Chi2StatExpectFirst(counts) ==
    LET k == Len(counts)
    IN IF k = 0 THEN [num |-> 0, den |-> 1]
       ELSE [num |-> SumSeq([i \in 1..k |-> (counts[i] - counts[1]) * (counts[i] - counts[1])]),
             den |-> counts[1]]

\* chi2 = ((counts - expected) ** 2 / expected).sum() with
\* expected = mean(counts) = N / k in every cell, so that
\* chi2 = sum (k * c - N)^2 / (k * N); the empty sum is 0.0
Chi2Stat(counts) ==
    LET k == Len(counts)
        N == SumSeq(counts)
    IN IF k = 0 THEN [num |-> 0, den |-> 1]
       ELSE [num |-> SumSeq([i \in 1..k |-> (k * counts[i] - N) * (k * counts[i] - N)]),
             den |-> k * N]

\* the upper quantiles of the chi-square distribution, in thousandths, for
\* 1 and 2 degrees of freedom at the levels 0.05 and 0.01
Chi2Quantile == << [p50 |-> 3841, p10 |-> 6635], [p50 |-> 5991, p10 |-> 9210] >>

\* chi2 > q / 1000, without overflowing 32 bits
RatGt(c, q) ==
    LET whole == c.num \div c.den
        rest == c.num % c.den
    IN \/ whole > q \div 1000
       \/ whole = q \div 1000 /\ rest * 1000 > (q % 1000) * c.den

\* 1 - stats.chi2.cdf(chi2, df=dof): NaN when dof <= 0 (scipy's answer for an
\* invalid shape parameter), exactly 1 at chi2 = 0, and otherwise a value in
\* the band of (0, 1) that the quantiles put it in
Chi2Sf(c, dof) ==
    IF dof <= 0 THEN NaN
    ELSE IF c.num = 0 THEN Num(1000)
    ELSE IF RatGt(c, Chi2Quantile[dof].p10) THEN Num(5)
    ELSE IF RatGt(c, Chi2Quantile[dof].p50) THEN Num(30)
    ELSE Num(500)

\* check_srm(df): the returned record
CheckSrmResult(d, a) ==
    LET counts == ValueCounts(d)
        chi2 == Chi2Stat(counts)
        pvalue == Chi2Sf(chi2, Len(counts) - 1)
    IN [chi2 |-> chi2, pvalue |-> pvalue, srm_detected |-> FloatLt(pvalue, Num(a))]

-----------------------------------------------------------------------------
(* Arms and samples.  An arm is the sequence of <<value, n>> runs left after  *)
(* filtering by label and dropping nulls; a bag is the set of <<value, count>> *)
(* pairs of a sample, each value once.                                        *)

RECURSIVE Arm(_, _)
\* df[df[variant_col] == lab][metric_col].dropna().values
Arm(d, lab) ==
    IF d = <<>> THEN <<>>
    ELSE IF Head(d).variant = lab /\ ~IsNa(Head(d).value)
         THEN <<<<Head(d).value, Head(d).n>>>> \o Arm(Tail(d), lab)
         ELSE Arm(Tail(d), lab)

\* len(arm) and arm.sum()
ArmLen(arm) == SumSeq([i \in DOMAIN arm |-> arm[i][2]])
ArmSum(arm) == SumSeq([i \in DOMAIN arm |-> arm[i][1] * arm[i][2]])

BagOf(arm) ==
    { <<v, SumSeq([i \in DOMAIN arm |-> IF arm[i][1] = v THEN arm[i][2] ELSE 0])>> :
        v \in { arm[i][1] : i \in DOMAIN arm } }

RECURSIVE BagSize(_)
BagSize(b) ==
    IF b = {} THEN 0 ELSE LET e == CHOOSE x \in b : TRUE IN e[2] + BagSize(b \ {e})

RECURSIVE SubBags(_, _)
\* the bags of m elements drawn from bag b without replacement
SubBags(b, m) ==
    IF b = {} THEN {{}}
    ELSE LET e == CHOOSE x \in b : TRUE
             rest == BagSize(b \ {e})
             lo == IF m > rest THEN m - rest ELSE 0
             hi == IF e[2] < m THEN e[2] ELSE m
         IN UNION { { (IF k > 0 THEN {<<e[1], k>>} ELSE {}) \cup s :
                        s \in SubBags(b \ {e}, m - k) } : k \in lo..hi }

\* set(df[metric_col].dropna().unique())
UniqueVals(d) == { d[i].value : i \in DOMAIN d } \ { v \in { d[i].value : i \in DOMAIN d } : IsNa(v) }

-----------------------------------------------------------------------------
(* _check_normality *)

SampleCap == 5000

\* a plausible slip: a sample cap of 3 left in from a trial run
NormalitySamplesCap3(data) ==
    IF ArmLen(data) > 3 THEN SubBags(BagOf(data), 3) ELSE {BagOf(data)}

\* lines 35-36: the samples shapiro may be handed; np.random.choice picks any
\* SampleCap of the observations when there are more
NormalitySamples(data) ==
    IF ArmLen(data) > SampleCap THEN SubBags(BagOf(data), SampleCap) ELSE {BagOf(data)}

\* line 39: pvalue > self.alpha
IsNormal(pvalue, a) == FloatGt(pvalue, Num(a))

\* a plausible slip: <= for <
SignificantLe(pvalue, a) == ~pvalue.nan /\ pvalue.v <= a

\* lines 55, 73, 91: pvalue < self.alpha
Significant(pvalue, a) == FloatLt(pvalue, Num(a))

-----------------------------------------------------------------------------
(* The library tests.  Each is a function of its input.  Where the library's *)
(* code fixes the answer (NaN on degenerate input) the model computes it;    *)
(* elsewhere the p-value is one of PGrid, and `lib` remembers it.            *)

PGrid == {10, 50, 500}

NoLib == [small |-> "unknown", shapiro |-> <<>>, ztest |-> <<>>, ttest |-> <<>>, mwu |-> <<>>]

\* the p-values a library function may return for key, given what it has returned
Answers(table, key) ==
    IF key \in DOMAIN table THEN {table[key]} ELSE { Num(p) : p \in PGrid }

Learn(table, key, p) == IF key \in DOMAIN table THEN table ELSE table @@ (key :> p)

\* shapiro(sample) rejects fewer than 3 observations
ShapiroTooSmall(bag) == BagSize(bag) < 3

SmallPolicies(L) == IF L.small = "unknown" THEN {"raise", "nan"} ELSE {L.small}

\* line 38: what shapiro(sample) may do, and what the library has then shown
ShapiroOutcomes(bag, L) ==
    IF ShapiroTooSmall(bag)
    THEN { [raised |-> pol = "raise", pvalue |-> NaN, lib |-> [L EXCEPT !.small = pol]] :
             pol \in SmallPolicies(L) }
    ELSE { [raised |-> FALSE, pvalue |-> p, lib |-> [L EXCEPT !.shapiro = Learn(@, bag, p)]] :
             p \in Answers(L.shapiro, bag) }

\* proportions_ztest(successes, nobs) never raises; it computes
\* (p1 - p2) / sqrt(p * (1 - p) * (1/n1 + 1/n2)) in floating point, which is
\* NaN when an arm is empty or when the pooled proportion p is 0 or 1
ZTestDegenerate(ts, tn, cs, cn) ==
    tn = 0 \/ cn = 0 \/ ts + cs = 0 \/ ts + cs = tn + cn

\* ttest_ind(treatment, control, equal_var=False) is 0 / 0 = NaN when both
\* arms are constant with the same value
TTestDegenerate(t, c) == Cardinality(BagOf(t \o c)) <= 1

\* mannwhitneyu(x, y) on an empty sample returns NaN in the scipy versions in
\* which shapiro returned NaN for it before (older ones never get this far)
MwuEmpty(t, c) == ArmLen(t) = 0 \/ ArmLen(c) = 0

-----------------------------------------------------------------------------
(* The outcome of a call of analyze_test: the verdict it returns or the      *)
(* exception it ends in; `trace`, the computations it made, in order; and    *)
(* `checks`, the normality checks it made.                                   *)

NoStat == [fn |-> "none", x |-> <<>>, y |-> <<>>]
NoSrm == [chi2 |-> [num |-> 0, den |-> 1], pvalue |-> NaN, srm_detected |-> FALSE]
NoVerdict ==
    [test |-> "none", statistic |-> NoStat, pvalue |-> NaN, significant |-> FALSE,
     metric_type |-> "none", srm |-> NoSrm]

Raised(exc, trace, checks) ==
    [kind |-> "error", error |-> exc, verdict |-> NoVerdict, trace |-> trace, checks |-> checks]
Returned(v, trace, checks) ==
    [kind |-> "verdict", error |-> "none", verdict |-> v, trace |-> trace, checks |-> checks]

\* lines 51-56, 69-74, 87-92 and 111/118/121, 123: the result dictionary
Verdict(test, stat, pvalue, a, mtype, srm) ==
    [test |-> test, statistic |-> stat, pvalue |-> pvalue,
     significant |-> Significant(pvalue, a), metric_type |-> mtype, srm |-> srm]

\* line 102: variants = df[variant_col].unique()
VariantsOf(d) == Unique(d)

\* a plausible slip: the values of the two arms only
ClassifiedValuesArms(d) ==
    LET u == VariantsOf(d)
    IN { d[i].value : i \in { j \in DOMAIN d : ~IsNa(d[j].value) /\ \E k \in 1..2 : k <= Len(u) /\ d[j].variant = u[k] } }

\* line 106: unique_vals, over the whole dataset
ClassifiedValues(d) == UniqueVals(d)

\* a plausible slip: == for <=
IsBinaryEq(d) == ClassifiedValues(d) = {0, 1}

\* line 109: unique_vals <= {0, 1}
IsBinary(d) == ClassifiedValues(d) \subseteq {0, 1}

\* a plausible slip: or for and
BothNormalOr(nc, nt) == nc \/ nt

\* line 116: is_normal_control and is_normal_treatment
BothNormal(nc, nt) == nc /\ nt

-----------------------------------------------------------------------------
(* The operations *)

Push(calls, e) == IF Len(calls) < KeepCalls THEN Append(calls, e) ELSE Append(Tail(calls), e)

Finish(out, newlib) ==
    /\ anCalls' = Push(anCalls, [df |-> df, out |-> out])
    /\ lib' = newlib
    /\ UNCHANGED <<alpha, df, srmCalls, edited>>

\* _check_normality(data), lines 33-39: every way the call can end
CheckNormality(data, L) ==
    LET ends == UNION { ShapiroOutcomes(b, L) : b \in NormalitySamples(data) }
    IN { [raised |-> e.raised, pvalue |-> e.pvalue, lib |-> e.lib,
          normal |-> IsNormal(e.pvalue, alpha)] : e \in ends }

\* proportion_test(control, treatment), lines 44-56, and lines 110-111
ProportionTest(control, treatment, srm) ==
    LET ts == ArmSum(treatment)
        cs == ArmSum(control)
        tn == ArmLen(treatment)
        cn == ArmLen(control)
        key == <<ts, tn, cs, cn>>
        stat == [fn |-> "proportions_ztest", x |-> <<ts, cs>>, y |-> <<tn, cn>>]
        trace == <<"check_srm", "proportions_ztest">>
    IN IF ZTestDegenerate(ts, tn, cs, cn)
       THEN Finish(Returned(Verdict("Proportion Z-Test", stat, NaN, alpha, "binary", srm),
                            trace, <<>>), lib)
       ELSE \E p \in Answers(lib.ztest, key) :
              Finish(Returned(Verdict("Proportion Z-Test", stat, p, alpha, "binary", srm),
                              trace, <<>>),
                     [lib EXCEPT !.ztest = Learn(@, key, p)])

\* two_sample_ttest(control, treatment), lines 61-74, and lines 117-118
TwoSampleTTest(control, treatment, srm, checks, L) ==
    LET key == <<treatment, control>>
        stat == [fn |-> "ttest_ind", x |-> treatment, y |-> control]
        trace == <<"check_srm", "shapiro", "shapiro", "ttest_ind">>
    IN IF TTestDegenerate(treatment, control)
       THEN Finish(Returned(Verdict("Two Sample T-Test", stat, NaN, alpha,
                                    "continuous_normal", srm), trace, checks), L)
       ELSE \E p \in Answers(L.ttest, key) :
              Finish(Returned(Verdict("Two Sample T-Test", stat, p, alpha,
                                      "continuous_normal", srm), trace, checks),
                     [L EXCEPT !.ttest = Learn(@, key, p)])

\* mann_whitney_u_test(control, treatment), lines 79-92, and lines 120-121
MannWhitneyUTest(control, treatment, srm, checks, L) ==
    LET key == <<treatment, control>>
        stat == [fn |-> "mannwhitneyu", x |-> treatment, y |-> control]
        trace == <<"check_srm", "shapiro", "shapiro", "mannwhitneyu">>
    IN IF MwuEmpty(treatment, control)
       THEN Finish(Returned(Verdict("Mann-Whitney U", stat, NaN, alpha,
                                    "continuous_non_normal", srm), trace, checks), L)
       ELSE \E p \in Answers(L.mwu, key) :
              Finish(Returned(Verdict("Mann-Whitney U", stat, p, alpha,
                                      "continuous_non_normal", srm), trace, checks),
                     [L EXCEPT !.mwu = Learn(@, key, p)])

Check(arm, r) == [arm |-> arm, pvalue |-> r.pvalue, normal |-> r.normal]

\* lines 113-121: the two normality checks, then the dispatch
Continuous(control, treatment, srm) ==
    \E rc \in CheckNormality(control, lib) :
      IF rc.raised
      THEN Finish(Raised("ValueError", <<"check_srm", "shapiro">>, <<>>), rc.lib)
      ELSE \E rt \in CheckNormality(treatment, rc.lib) :
        IF rt.raised
        THEN Finish(Raised("ValueError", <<"check_srm", "shapiro", "shapiro">>,
                           <<Check("control", rc)>>), rt.lib)
        ELSE LET checks == <<Check("control", rc), Check("treatment", rt)>>
             IN IF BothNormal(rc.normal, rt.normal)
                THEN TwoSampleTTest(control, treatment, srm, checks, rt.lib)
                ELSE MannWhitneyUTest(control, treatment, srm, checks, rt.lib)

\* analyze_test(df, metric_col), lines 97-125
AnalyzeTest ==
    LET srm_result == CheckSrmResult(df, alpha)
        variants == VariantsOf(df)
    IN IF Len(variants) < 2
       THEN Finish(Raised("IndexError", <<"check_srm">>, <<>>), lib)
       ELSE LET control == Arm(df, variants[1])
                treatment == Arm(df, variants[2])
            IN IF IsBinary(df)
               THEN ProportionTest(control, treatment, srm_result)
               ELSE Continuous(control, treatment, srm_result)

\* check_srm(df), lines 16-28: it always returns its record
CheckSrm ==
    /\ srmCalls' = Push(srmCalls, [df |-> df, kind |-> "returned",
                                   res |-> CheckSrmResult(df, alpha)])
    /\ UNCHANGED <<alpha, df, lib, anCalls, edited>>

-----------------------------------------------------------------------------
(* The caller *)

Permutations3 == { f \in [Variants -> Variants] : \A v \in Variants : \E w \in Variants : f[w] = v }

\* Between two calls the caller rearranges the dataset once, by one exchange:
\* every renaming of the labels and every reordering of the rows is a chain
\* of such exchanges.

\* the caller exchanges two variant labels
Relabel ==
    /\ ~edited
    /\ \E a \in Variants : \E b \in Variants \ {a} :
         df' = [i \in DOMAIN df |->
                  [df[i] EXCEPT !.variant = IF @ = a THEN b ELSE IF @ = b THEN a ELSE @]]
    /\ df' # df
    /\ edited' = TRUE
    /\ UNCHANGED <<alpha, lib, srmCalls, anCalls>>

\* the caller exchanges two neighbouring runs of rows
SwapRows ==
    /\ ~edited
    /\ \E i \in 1..(Len(df) - 1) :
         /\ df[i] # df[i + 1]
         /\ df' = [df EXCEPT ![i] = df[i + 1], ![i + 1] = df[i]]
    /\ edited' = TRUE
    /\ UNCHANGED <<alpha, lib, srmCalls, anCalls>>

-----------------------------------------------------------------------------
(* Specifications *)

RECURSIVE SeqsUpTo(_, _)
SeqsUpTo(S, n) ==
    IF n = 0 THEN {<<>>}
    ELSE LET shorter == SeqsUpTo(S, n - 1)
         IN shorter \cup { Append(s, x) : s \in { t \in shorter : Len(t) = n - 1 }, x \in S }

Runs == { [variant |-> lab, value |-> k[1], n |-> k[2]] : lab \in Variants, k \in RunKinds }
SrmRuns == { [variant |-> lab, value |-> 0, n |-> k] : lab \in Variants, k \in SrmSizes }

Init ==
    /\ alpha \in Alphas
    /\ df \in SeqsUpTo(Runs, MaxRuns)
    /\ lib = NoLib
    /\ srmCalls = <<>>
    /\ anCalls = <<>>
    /\ edited = FALSE

Next == AnalyzeTest

Spec == Init /\ [][Next]_vars

InitSrm ==
    /\ alpha \in Alphas
    /\ df \in SeqsUpTo(SrmRuns, MaxRuns)
    /\ lib = NoLib
    /\ srmCalls = <<>>
    /\ anCalls = <<>>
    /\ edited = FALSE

NextSrm == CheckSrm \/ Relabel \/ SwapRows

SpecSrm == InitSrm /\ [][NextSrm]_vars

-----------------------------------------------------------------------------
(* What the properties speak of *)

AnCalls == Range(anCalls)
SrmCalls == Range(srmCalls)

NumLabels(d) == Cardinality(Range(LabelsOf(d)))
TotalRows(d) == SumSeq([i \in DOMAIN d |-> d[i].n])

\* the non-null metric values of the rows of the k-th label to appear
ArmOf(d, k) == Arm(d, Unique(d)[k])
ArmValues(d, k) == { d[i].value : i \in { j \in DOMAIN d : d[j].variant = Unique(d)[k] } } \ {-1}

BinaryData(d) == UniqueVals(d) \subseteq {0, 1}

\* the call handed n samples to shapiro
ShapiroRan(out, n) == Cardinality({ i \in DOMAIN out.trace : out.trace[i] = "shapiro" }) = n

ArmsWithinCap(d) ==
    \A k \in 1..2 : k <= Len(Unique(d)) => ArmLen(ArmOf(d, k)) <= SampleCap

SameAnswer(o1, o2) == o1.kind = o2.kind /\ o1.error = o2.error /\ o1.verdict = o2.verdict

\* the per-label row counts agree up to a renaming of the labels
SameCounts(d1, d2) ==
    \E f \in Permutations3 : \A v \in Variants : RowCount(d1, v) = RowCount(d2, f[v])

CountSet(d) == { RowCount(d, v) : v \in Range(LabelsOf(d)) }

-----------------------------------------------------------------------------
(* C1: every call of analyze_test on a dataset with at least two variant     *)
(* labels whose non-null metric values are all in {0, 1} returns a verdict   *)
(* with test "Proportion Z-Test" and metric_type "binary", and makes no      *)
(* normality check.                                                          *)
C1_BinaryAlwaysZTest ==
    \A c \in AnCalls :
        NumLabels(c.df) >= 2 /\ BinaryData(c.df)
        => /\ c.out.kind = "verdict"
           /\ c.out.verdict.test = "Proportion Z-Test"
           /\ c.out.verdict.metric_type = "binary"
           /\ ShapiroRan(c.out, 0)
           /\ c.out.checks = <<>>

\* a constant metric (every non-null value is 1) with arms of different sizes
\* got the Z-test
C1_Witness ==
    \E c \in AnCalls :
        /\ NumLabels(c.df) >= 2
        /\ UniqueVals(c.df) = {1}
        /\ ArmLen(ArmOf(c.df, 1)) # ArmLen(ArmOf(c.df, 2))
        /\ c.out.kind = "verdict"
        /\ c.out.verdict.test = "Proportion Z-Test"

-----------------------------------------------------------------------------
(* C2, as stated: every call of analyze_test on a dataset whose non-null     *)
(* metric values are not all in {0, 1} makes both normality checks and       *)
(* returns the t-test with "continuous_normal" if both arms are normal and   *)
(* Mann-Whitney with "continuous_non_normal" otherwise.                      *)
C2_AsStated ==
    \A c \in AnCalls :
        ~BinaryData(c.df)
        => /\ c.out.kind = "verdict"
           /\ Len(c.out.checks) = 2
           /\ IF c.out.checks[1].normal /\ c.out.checks[2].normal
              THEN /\ c.out.verdict.test = "Two Sample T-Test"
                   /\ c.out.verdict.metric_type = "continuous_normal"
              ELSE /\ c.out.verdict.test = "Mann-Whitney U"
                   /\ c.out.verdict.metric_type = "continuous_non_normal"

TestPairs ==
    { <<"Proportion Z-Test", "binary">>, <<"Two Sample T-Test", "continuous_normal">>,
      <<"Mann-Whitney U", "continuous_non_normal">> }

(* C2, amended: whenever analyze_test returns a verdict for such a dataset   *)
(* it has made both normality checks, control first, and the verdict is the  *)
(* t-test with "continuous_normal" if and only if both arms are normal, and  *)
(* Mann-Whitney with "continuous_non_normal" otherwise; it does return a     *)
(* verdict when the dataset has at least two labels and both arms have at    *)
(* least 3 observations; and no verdict carries another (test, metric_type)  *)
(* pair than the three of the dispatch.                                      *)
C2_ContinuousDispatch ==
    \A c \in AnCalls :
        /\ c.out.kind = "verdict"
           => <<c.out.verdict.test, c.out.verdict.metric_type>> \in TestPairs
        /\ ~BinaryData(c.df) /\ c.out.kind = "verdict"
           => /\ ShapiroRan(c.out, 2)
              /\ Len(c.out.checks) = 2
              /\ c.out.checks[1].arm = "control"
              /\ c.out.checks[2].arm = "treatment"
              /\ IF c.out.checks[1].normal /\ c.out.checks[2].normal
                 THEN /\ c.out.verdict.test = "Two Sample T-Test"
                      /\ c.out.verdict.metric_type = "continuous_normal"
                 ELSE /\ c.out.verdict.test = "Mann-Whitney U"
                      /\ c.out.verdict.metric_type = "continuous_non_normal"
        /\ /\ ~BinaryData(c.df)
           /\ NumLabels(c.df) >= 2
           /\ ArmLen(ArmOf(c.df, 1)) >= 3
           /\ ArmLen(ArmOf(c.df, 2)) >= 3
           => c.out.kind = "verdict"

\* the control arm was normal, the treatment arm was not, and Mann-Whitney ran
C2_Witness ==
    \E c \in AnCalls :
        /\ ~BinaryData(c.df)
        /\ c.out.kind = "verdict"
        /\ Len(c.out.checks) = 2
        /\ c.out.checks[1].normal
        /\ ~c.out.checks[2].normal
        /\ c.out.verdict.test = "Mann-Whitney U"

-----------------------------------------------------------------------------
(* C3: two calls of check_srm on datasets whose per-label row counts agree   *)
(* up to a renaming of the labels (or a reordering of the rows) return the   *)
(* same chi2, pvalue and srm_detected.                                       *)
C3_SrmSymmetric ==
    \A c1 \in SrmCalls : \A c2 \in SrmCalls :
        SameCounts(c1.df, c2.df) => c1.res = c2.res

\* check_srm ran on two different arrangements of three labels with three
\* different row counts
C3_Witness ==
    \E c1 \in SrmCalls : \E c2 \in SrmCalls :
        /\ c1.df # c2.df
        /\ SameCounts(c1.df, c2.df)
        /\ Cardinality(CountSet(c1.df)) = 3
        /\ Unique(c1.df) # Unique(c2.df)
        /\ c1.res.chi2.num > 0

-----------------------------------------------------------------------------
(* C4: two calls of analyze_test on the same dataset, both arms of which     *)
(* have at most 5000 non-null observations, end the same way (the same       *)
(* verdict, or the same exception), whatever was called in between; and no   *)
(* call changes the engine's alpha or the caller's dataset.                  *)
C4_SameAnswers ==
    \A c1 \in AnCalls : \A c2 \in AnCalls :
        c1.df = c2.df /\ ArmsWithinCap(c1.df) => SameAnswer(c1.out, c2.out)

C4_Deterministic == [](C4_SameAnswers) /\ [][alpha' = alpha /\ df' = df]_vars

\* analyze_test returned twice on a continuous dataset one arm of which has
\* exactly 5000 observations
C4_Witness ==
    /\ Len(anCalls) = 2
    /\ anCalls[1].df = anCalls[2].df
    /\ ~BinaryData(df)
    /\ NumLabels(df) >= 2
    /\ ArmLen(ArmOf(df, 1)) = SampleCap
    /\ ArmsWithinCap(df)
    /\ anCalls[1].out.kind = "verdict"
    /\ anCalls[2].out.kind = "verdict"

-----------------------------------------------------------------------------
(* C5: on a dataset with fewer than two variant labels analyze_test ends in  *)
(* an error, and has made no statistical computation (the SRM check          *)
(* included) before it does.                                                 *)
C5_FailsBeforeAnyComputation ==
    \A c \in AnCalls :
        NumLabels(c.df) < 2 => c.out.kind = "error" /\ c.out.trace = <<>>

-----------------------------------------------------------------------------
(* C6: when an arm has no non-null observation analyze_test ends in an error *)
(* and returns no verdict.                                                   *)
C6_EmptyArmFails ==
    \A c \in AnCalls :
        /\ NumLabels(c.df) >= 2
        /\ ArmLen(ArmOf(c.df, 1)) = 0 \/ ArmLen(ArmOf(c.df, 2)) = 0
        => c.out.kind = "error"

-----------------------------------------------------------------------------
(* C7: check_srm on a dataset with fewer than two variant labels does not    *)
(* return a {chi2, pvalue, srm_detected} record.                             *)
C7_DegenerateSrmGuarded ==
    \A c \in SrmCalls : NumLabels(c.df) < 2 => c.kind # "returned"

-----------------------------------------------------------------------------
-----------------------------------------------------------------------------
(* C9: check_srm expects the mean of the counts in every cell: with two or   *)
(* more labels of equal row counts chi2 = 0, pvalue = 1 and srm_detected is  *)
(* false whatever alpha is; with the counts 900 and 100 chi2 = 640, and      *)
(* srm_detected is true at alpha = 0.05.                                     *)
C9_SrmExpectsTheMean ==
    \A c \in SrmCalls :
        /\ NumLabels(c.df) >= 2 /\ Cardinality(CountSet(c.df)) = 1
           => /\ c.res.chi2.num = 0
              /\ c.res.pvalue = Num(1000)
              /\ ~c.res.srm_detected
        /\ NumLabels(c.df) = 2 /\ CountSet(c.df) = {900, 100}
           => /\ c.res.chi2.num = 640 * c.res.chi2.den
              /\ alpha = 50 => c.res.srm_detected

\* check_srm ran at alpha = 0.05 on the counts 900 and 100
C9_Witness ==
    \E c \in SrmCalls :
        /\ NumLabels(c.df) = 2
        /\ CountSet(c.df) = {900, 100}
        /\ alpha = 50
        /\ c.res.srm_detected

-----------------------------------------------------------------------------
(* C10: in every verdict the test was run on the non-null values of the      *)
(* second label to appear (treatment) against those of the first (control),  *)
(* rows of further labels in neither; metric_type is "binary" iff the        *)
(* non-null values of the whole dataset are all in {0, 1}; and the SRM       *)
(* result counts the rows of every label.                                    *)
C10_ArmsAndClassification ==
    \A c \in AnCalls :
        c.out.kind = "verdict"
        => LET ctl == ArmOf(c.df, 1)
               trt == ArmOf(c.df, 2)
               v == c.out.verdict
           IN /\ IF v.test = "Proportion Z-Test"
                 THEN /\ v.statistic.x = <<ArmSum(trt), ArmSum(ctl)>>
                      /\ v.statistic.y = <<ArmLen(trt), ArmLen(ctl)>>
                 ELSE /\ v.statistic.x = trt
                      /\ v.statistic.y = ctl
              /\ v.metric_type = "binary" <=> BinaryData(c.df)
              /\ v.srm.chi2.den = NumLabels(c.df) * TotalRows(c.df)

\* both arms hold only 0s and 1s, a row of a third label holds a 2, and the
\* verdict is a continuous one
C10_Witness ==
    \E c \in AnCalls :
        /\ NumLabels(c.df) = 3
        /\ ArmValues(c.df, 1) \subseteq {0, 1}
        /\ ArmValues(c.df, 2) \subseteq {0, 1}
        /\ ArmValues(c.df, 1) # {}
        /\ ArmValues(c.df, 2) # {}
        /\ ~BinaryData(c.df)
        /\ c.out.kind = "verdict"
        /\ c.out.verdict.metric_type = "continuous_non_normal"
        /\ c.out.verdict.srm.chi2.den = 3 * TotalRows(c.df)

=============================================================================
